---------------------------- MODULE Spec2Model ----------------------------
(***************************************************************************)
(* Model of the retrieval handler of medical-rag-api (src/app.py):         *)
(* request parsing, the embedding and similarity-search calls, the         *)
(* per-match extraction loop (exclusion filter, metadata probing, regex    *)
(* fallback, validation, first-seen consolidation, description lookup),    *)
(* and the final sort-and-limit.                                           *)
(*                                                                         *)
(* Python strings are sequences of one-character strings, so that strip,   *)
(* lower, split, substring search and the regular expressions are          *)
(* computed character by character.  Scores are integers (hundredths);     *)
(* float(score) of a float is that float.                                  *)
(***************************************************************************)
EXTENDS Integers, Sequences, FiniteSets, TLC

(***************************************************************************)
(* Strings                                                                 *)
(***************************************************************************)
\* the function as a tuple
Tuple(f) == SubSeq(f, 1, Len(f))

\* a string literal as its sequence of characters
Chars(s) == Tuple([i \in 1..Len(s) |-> SubSeq(s, i, i)])

Digits == {"0", "1", "2", "3", "4", "5", "6", "7", "8", "9"}

UpperLetters == Chars("ABCDEFGHIJKLMNOPQRSTUVWXYZ")

LowerLetters == Chars("abcdefghijklmnopqrstuvwxyz")

Whitespace == {" ", "\t", "\n", "\r"}

Range(f) == {f[x] : x \in DOMAIN f}

SetMin(S) == CHOOSE x \in S : \A y \in S : x <= y

SetMax(S) == CHOOSE x \in S : \A y \in S : x >= y

UpperSet == Range(UpperLetters)

WordChars == Digits \cup Range(UpperLetters) \cup Range(LowerLetters) \cup {"_"}

\* \w of the re module, on the characters of the model
IsWordChar(c) == c \in WordChars

LowerChar(c) ==
    IF c \in UpperSet
    THEN LowerLetters[CHOOSE k \in DOMAIN UpperLetters : UpperLetters[k] = c]
    ELSE c

\* str.lower()
Lower(s) == Tuple([k \in 1..Len(s) |-> LowerChar(s[k])])

\* `sub in s`
Contains(sub, s) ==
    \E k \in 0..(Len(s) - Len(sub)) : \A j \in 1..Len(sub) : s[k + j] = sub[j]

\* str.strip()
Strip(s) ==
    LET keep == {k \in 1..Len(s) : s[k] \notin Whitespace}
    IN  IF keep = {} THEN <<>> ELSE SubSeq(s, SetMin(keep), SetMax(keep))

\* str.replace(a, b) for one-character a and b
Replace(s, a, b) == Tuple([k \in 1..Len(s) |-> IF s[k] = a THEN b ELSE s[k]])

\* str.split(sep) for a one-character sep: "" splits to [""]
RECURSIVE Split(_, _)
Split(s, sep) ==
    LET at == {k \in 1..Len(s) : s[k] = sep}
    IN  IF at = {} THEN <<s>>
        ELSE LET first == SetMin(at)
             IN  <<SubSeq(s, 1, first - 1)>> \o Split(SubSeq(s, first + 1, Len(s)), sep)

\* sep.join(parts)
RECURSIVE Join(_, _)
Join(parts, sep) ==
    IF parts = <<>> THEN <<>>
    ELSE IF Len(parts) = 1 THEN parts[1]
    ELSE parts[1] \o sep \o Join(Tail(parts), sep)

\* str.isdigit()
IsDigitStr(s) == s # <<>> /\ \A k \in 1..Len(s) : s[k] \in Digits

(***************************************************************************)
(* Regular expressions of the text-extraction fallback                     *)
(***************************************************************************)
\* \b between text[p] and text[p+1] (p = 0: start, p = Len: end)
Boundary(text, p) ==
    LET before == p >= 1 /\ IsWordChar(text[p])
        after  == p < Len(text) /\ IsWordChar(text[p + 1])
    IN  before # after

\* [A-TV-Z]
ICD10Letters == UpperSet \ {"U"}

\* \d{1,4} of the ICD-10 pattern
ICD10MaxDecimals == 4

\* \d{5} of the CPT pattern
CPTPatternDigits == 5

\* length of the match of \b[A-TV-Z]\d{2}(?:\.\d{1,4})?\b starting at text[p],
\* 0 when there is none; the optional group is greedy and backtracks
ICD10MatchLen(text, p) ==
    LET head == /\ Boundary(text, p - 1)
                /\ p + 2 <= Len(text)
                /\ text[p] \in ICD10Letters
                /\ text[p + 1] \in Digits
                /\ text[p + 2] \in Digits
        group(n) == /\ p + 3 + n <= Len(text)
                    /\ text[p + 3] = "."
                    /\ \A k \in 1..n : text[p + 3 + k] \in Digits
                    /\ Boundary(text, p + 3 + n)
        ns == {n \in 1..ICD10MaxDecimals : group(n)}
    IN  IF ~head THEN 0
        ELSE IF ns # {} THEN 3 + 1 + SetMax(ns)
        ELSE IF Boundary(text, p + 2) THEN 3
        ELSE 0

\* length of the match of \b\d{5}\b starting at text[p], 0 when there is none
CPTMatchLen(text, p) ==
    IF /\ Boundary(text, p - 1)
       /\ p + CPTPatternDigits - 1 <= Len(text)
       /\ \A k \in 0..(CPTPatternDigits - 1) : text[p + k] \in Digits
       /\ Boundary(text, p + CPTPatternDigits - 1)
    THEN CPTPatternDigits ELSE 0

\* re.findall: leftmost non-overlapping matches, scanning from position p
RECURSIVE FindallICD10(_, _)
FindallICD10(text, p) ==
    IF p > Len(text) THEN <<>>
    ELSE LET n == ICD10MatchLen(text, p)
         IN  IF n > 0 THEN <<SubSeq(text, p, p + n - 1)>> \o FindallICD10(text, p + n)
             ELSE FindallICD10(text, p + 1)

RECURSIVE FindallCPT(_, _)
FindallCPT(text, p) ==
    IF p > Len(text) THEN <<>>
    ELSE LET n == CPTMatchLen(text, p)
         IN  IF n > 0 THEN <<SubSeq(text, p, p + n - 1)>> \o FindallCPT(text, p + n)
             ELSE FindallCPT(text, p + 1)

(***************************************************************************)
(* Validation, description, accumulation                                   *)
(***************************************************************************)
ICD10MinLen == 3

CPTLen == 5

\* len(code) >= 3 and re.match(r'^[A-TV-Z]\d{2}', code)
ValidICD10(code) ==
    /\ Len(code) >= ICD10MinLen
    /\ code[1] \in ICD10Letters
    /\ code[2] \in Digits
    /\ code[3] \in Digits

\* variant: the length test left out
ValidCPTAnyLength(code) == IsDigitStr(code)

\* len(code) == 5 and code.isdigit()
ValidCPT(code) == Len(code) = CPTLen /\ IsDigitStr(code)

\* HCPCS: no shape check beyond non-empty
ValidHCPCS(code) == TRUE

Valid(cat, code) ==
    CASE cat = "icd10" -> ValidICD10(code)
      [] cat = "cpt"   -> ValidCPT(code)
      [] cat = "hcpcs" -> ValidHCPCS(code)

CategoryLabel(cat) ==
    CASE cat = "icd10" -> Chars("ICD-10")
      [] cat = "cpt"   -> Chars("CPT")
      [] cat = "hcpcs" -> Chars("HCPCS")

\* dict.get(key, default)
Get(d, key, default) == IF key \in DOMAIN d THEN d[key] ELSE default

\* variant: the last positive term instead of the first
DescribeLastTerm(cat, code, table) ==
    LET generic == CategoryLabel(cat) \o Chars(" code ") \o code
    IN  IF code \in DOMAIN table
        THEN LET terms == Get(table[code], "positive_terms", <<>>)
             IN  IF terms # <<>> THEN terms[Len(terms)] ELSE generic
        ELSE generic

\* description = f"<label> code {code}", replaced by positive_terms[0]
\* when the code is in terminology and the terms are non-empty
Describe(cat, code, table) ==
    LET generic == CategoryLabel(cat) \o Chars(" code ") \o code
    IN  IF code \in DOMAIN table
        THEN LET terms == Get(table[code], "positive_terms", <<>>)
             IN  IF terms # <<>> THEN terms[1] ELSE generic
        ELSE generic

\* the accumulators are dicts in insertion order: sequences of entries,
\* at most one per code
DictKeys(d) == {d[k].code : k \in DOMAIN d}

DictHas(d, code) == code \in DictKeys(d)

\* d[code] = entry: an existing key keeps its position
DictSet(d, code, entry) ==
    IF DictHas(d, code)
    THEN Tuple([k \in 1..Len(d) |-> IF d[k].code = code THEN entry ELSE d[k]])
    ELSE Append(d, entry)

SourceOf(from_meta) == IF from_meta THEN "metadata" ELSE "text_extraction"

NewEntry(cat, code, score, from_meta, table) ==
    [code |-> code,
     description |-> Describe(cat, code, table),
     score |-> score,
     source |-> SourceOf(from_meta)]

\* variant: the `code not in x_codes` test left out, a later passage overwrites
AddCodeLastWins(cat, codes, token, score, from_meta, table) ==
    LET code == Strip(token)
    IN  IF code # <<>> /\ Valid(cat, code)
        THEN DictSet(codes, code, NewEntry(cat, code, score, from_meta, table))
        ELSE codes

\* variant: entries collected in a list, with no test for a code seen before
AddCodeAppend(cat, codes, token, score, from_meta, table) ==
    LET code == Strip(token)
    IN  IF code # <<>> /\ Valid(cat, code)
        THEN Append(codes, NewEntry(cat, code, score, from_meta, table))
        ELSE codes

\* one iteration of `for code in str(...).replace(';', ',').split(',')`
AddCode(cat, codes, token, score, from_meta, table) ==
    LET code == Strip(token)
    IN  IF code # <<>> /\ ~DictHas(codes, code) /\ Valid(cat, code)
        THEN DictSet(codes, code, NewEntry(cat, code, score, from_meta, table))
        ELSE codes

RECURSIVE AddCodes(_, _, _, _, _, _)
AddCodes(cat, codes, tokens, score, from_meta, table) ==
    IF tokens = <<>> THEN codes
    ELSE AddCodes(cat, AddCode(cat, codes, Head(tokens), score, from_meta, table),
                  Tail(tokens), score, from_meta, table)

\* `if x_str: for code in ...` of one category
ProcessCodes(cat, codes, str, score, from_meta, table) ==
    IF str # <<>>
    THEN AddCodes(cat, codes, Split(Replace(str, ";", ","), ","), score, from_meta, table)
    ELSE codes

\* sorted(values, key=score, reverse=True): stable, ties keep their order
InsertByScore(sorted, e) ==
    LET k == Cardinality({j \in 1..Len(sorted) : sorted[j].score >= e.score})
    IN  SubSeq(sorted, 1, k) \o <<e>> \o SubSeq(sorted, k + 1, Len(sorted))

RECURSIVE SortedByScore(_)
SortedByScore(d) ==
    IF d = <<>> THEN <<>>
    ELSE InsertByScore(SortedByScore(SubSeq(d, 1, Len(d) - 1)), d[Len(d)])

\* seq[:n]
Take(seq, n) == SubSeq(seq, 1, IF n < Len(seq) THEN n ELSE Len(seq))

ICD10Limit == 20

CPTLimit == 15

HCPCSLimit == 10

Limit(cat) ==
    CASE cat = "icd10" -> ICD10Limit
      [] cat = "cpt"   -> CPTLimit
      [] cat = "hcpcs" -> HCPCSLimit

\* variant: the slice taken before the sort
SortAndLimitSliceFirst(cat, codes) == SortedByScore(Take(codes, Limit(cat)))

\* sorted(x_codes.values(), key=lambda x: x['score'], reverse=True)[:N]
SortAndLimit(cat, codes) == Take(SortedByScore(codes), Limit(cat))

(***************************************************************************)
(* Terminology, loaded once at start-up                                    *)
(***************************************************************************)
\* terminology_lookup.json in its list form; one entry has no code, one has
\* no positive_terms, one has empty positive_terms
TerminologyEntries ==
    << [code |-> Chars("F41.1"),
        positive_terms |-> <<Chars("Generalized anxiety disorder"), Chars("GAD")>>],
       [code |-> Chars("I10"), positive_terms |-> <<>>],
       [code |-> Chars("99213"), positive_terms |-> <<Chars("Office visit")>>],
       [code |-> Chars("J1100")],
       [positive_terms |-> <<Chars("orphan")>>],
       [code |-> Chars("B00"), positive_terms |-> <<Chars("Herpesviral infection")>>] >>

TerminologyFiles ==
    { [kind |-> "missing"],
      [kind |-> "list", content |-> TerminologyEntries] }

\* the start-up load: a list is keyed by each entry's code (entries without
\* code skipped, a repeated code overwritten), a missing file gives {}
LoadTerminology(file) ==
    IF file.kind = "missing" THEN <<>>
    ELSE IF file.kind = "list"
    THEN LET entries == file.content
             coded == {k \in DOMAIN entries : Get(entries[k], "code", <<>>) # <<>>}
         IN  [c \in {entries[k].code : k \in coded} |->
                 entries[SetMax({k \in coded : entries[k].code = c})]]
    ELSE file.content

(***************************************************************************)
(* The vector index: the passages the similarity search can return         *)
(***************************************************************************)
ClinicalIndex ==
    { \* ICD-10 by pattern, with edge cases of the patterns; CPT under the
      \* third key; no HCPCS value
      [score |-> 95,
       metadata |-> [text |-> Chars("diagnosed with F41.1, F41.12345 U07.1 B20x "
                                    \o "123456 Z00.00 99213 J1100"),
                     procedure_codes |-> Chars("1234, 99213 ,99499")]],
      \* no text; two ICD-10 keys, a repeated token, CPT and HCPCS values
      [score |-> 80,
       metadata |-> [icd10_codes |-> Chars("F41.1, F41.9;F41.1"),
                     icd10 |-> Chars("Z99"),
                     cpt_codes |-> Chars("99213;9921"),
                     hcpcs |-> Chars(" J1100 ,,E0100")]],
      \* text with codes of the three kinds, HCPCS in metadata
      [score |-> 97,
       metadata |-> [text |-> Chars("Rule out flu: J10.1, F41.1 visit 99214"),
                     hcpcs_codes |-> Chars("G0008"),
                     hcpcs |-> Chars("G9999"),
                     specialty |-> Chars("cardiology")]],
      \* empty first key, tokens that fail validation, blank CPT value
      [score |-> 80,
       metadata |-> ("icd-10" :> Chars("K21"))
                    @@ [text |-> Chars("E11.9 and 99215"),
                        icd10_codes |-> <<>>,
                        icd_10 |-> Chars("X9, f41, I10"),
                        cpt_codes |-> Chars(" "),
                        specialty |-> Chars("cardiology")]] }

BulkIndex ==
    { [score |-> 50,
       metadata |-> [text |-> Chars("A00 A01 A02 A03 A04 A05 A06 A07 A08 A09 A10 "
                                    \o "10000 10001 10002 10003 10004 10005 10006 10007"),
                     hcpcs_codes |-> Chars("G0001,G0002,G0003,G0004,G0005,G0006")]],
      [score |-> 60,
       metadata |-> [icd10_codes |-> Chars("B00,B01,B02,B03,B04,B05,B06,B07,B08,B09,B10"),
                     cpt |-> Chars("20000;20001;20002;20003;20004;20005;20006;20007"),
                     hcpcs |-> Chars("H0001,H0002,H0003,H0004,H0005,H0006")]],
      [score |-> 50,
       metadata |-> [icd10 |-> Chars("C00,C01,C02,C03,C04,C05,C06,C07,C08,A00,A01"),
                     procedure_codes |-> Chars("30000,30001,30002,30003,30004,30005,30006,10000"),
                     hcpcs_codes |-> Chars("K0001,K0002,K0003,K0004,K0005,G0001")]],
      \* a match without metadata
      [score |-> 70] }

IndexNames == {"clinical", "bulk"}

Passages(name) == IF name = "clinical" THEN ClinicalIndex ELSE BulkIndex

(***************************************************************************)
(* Requests                                                                *)
(***************************************************************************)
QueryInputs == {<<>>, Chars("  "), Chars(" anxiety ")}

ExclusionInputs == { <<Chars("")>>, <<Chars("zz"), Chars("FLU")>> }

TopKInputs == { [int |-> 0], [str |-> Chars(" 1 ")], [str |-> Chars("abc")] }

SpecialtyInputs == { Chars("cardiology") }

\* request bodies: every key may be missing
Requests ==
    { q @@ e @@ t @@ s :
        q \in {<<>>} \cup {[query |-> v] : v \in QueryInputs},
        e \in {<<>>} \cup {[exclusion_terms |-> v] : v \in ExclusionInputs},
        t \in {<<>>} \cup {[top_k |-> v] : v \in TopKInputs},
        s \in {<<>>} \cup {[specialty |-> v] : v \in SpecialtyInputs} }

DigitValue(c) == CHOOSE v \in 0..9 : Chars("0123456789")[v + 1] = c

RECURSIVE DecimalValue(_)
DecimalValue(s) ==
    IF s = <<>> THEN 0
    ELSE 10 * DecimalValue(SubSeq(s, 1, Len(s) - 1)) + DigitValue(s[Len(s)])

\* int(x): an int is itself; a string is stripped and read as an optionally
\* signed decimal, anything else raises ValueError
IntOf(x) ==
    IF "int" \in DOMAIN x THEN [ok |-> TRUE, value |-> x.int]
    ELSE LET t == Strip(x.str)
             signed == t # <<>> /\ t[1] \in {"+", "-"}
             body == IF signed THEN Tail(t) ELSE t
         IN  IF IsDigitStr(body)
             THEN [ok |-> TRUE,
                   value |-> IF signed /\ t[1] = "-" THEN 0 - DecimalValue(body)
                             ELSE DecimalValue(body)]
             ELSE [ok |-> FALSE, value |-> 0]

DefaultTopK == 20

FanOut == 3

MaxFanOut == 100

\* min(top_k * 3, 100)
SearchTopK(k) == IF k * FanOut < MaxFanOut THEN k * FanOut ELSE MaxFanOut

\* filter_dict: specialty only when given and not 'general'
FilterDict(spec) ==
    IF spec # <<>> /\ spec # Chars("general") THEN [specialty |-> spec] ELSE <<>>

(***************************************************************************)
(* One match of the loop                                                   *)
(***************************************************************************)
\* match.metadata or {}
MetadataOf(match) == Get(match, "metadata", [x \in {} |-> x])

\* metadata.get(k1) or metadata.get(k2) or ... or ''
RECURSIVE FirstTruthy(_, _)
FirstTruthy(metadata, keys) ==
    IF keys = <<>> THEN <<>>
    ELSE IF Get(metadata, Head(keys), <<>>) # <<>> THEN metadata[Head(keys)]
    ELSE FirstTruthy(metadata, Tail(keys))

MetadataKeys(cat) ==
    CASE cat = "icd10" -> <<"icd10_codes", "icd10", "icd_10", "icd-10">>
      [] cat = "cpt"   -> <<"cpt_codes", "cpt", "procedure_codes">>
      [] cat = "hcpcs" -> <<"hcpcs_codes", "hcpcs">>

\* variant: the comparison without lower()
ExcludedCaseSensitive(terms, chunk_text) ==
    /\ terms # <<>>
    /\ \E k \in DOMAIN terms : Contains(terms[k], chunk_text)

\* exclusion_terms and any(term.lower() in chunk_text.lower() for term in exclusion_terms)
Excluded(terms, chunk_text) ==
    LET lowered == Lower(chunk_text)
    IN  /\ terms # <<>>
        /\ \E k \in DOMAIN terms : Contains(Lower(terms[k]), lowered)

\* variant: the ICD-10 pattern also applied for HCPCS
TextMatchesEveryCategory(cat, chunk_text) ==
    IF cat = "cpt" THEN FindallCPT(chunk_text, 1) ELSE FindallICD10(chunk_text, 1)

\* STRATEGY 2: the matches of the category's pattern, ICD-10 and CPT only
TextMatches(cat, chunk_text) ==
    CASE cat = "icd10" -> FindallICD10(chunk_text, 1)
      [] cat = "cpt"   -> FindallCPT(chunk_text, 1)
      [] cat = "hcpcs" -> <<>>

\* variant: the fallback also taken when no metadata token is a valid code
CodeStrUnlessValid(cat, metadata, chunk_text) ==
    LET str == FirstTruthy(metadata, MetadataKeys(cat))
        found == TextMatches(cat, chunk_text)
        usable == \E t \in Range(Split(Replace(str, ";", ","), ",")) :
                      Strip(t) # <<>> /\ Valid(cat, Strip(t))
    IN  IF ~usable /\ chunk_text # <<>> /\ found # <<>>
        THEN Join(found, Chars(","))
        ELSE str

\* x_str after both strategies
CodeStr(cat, metadata, chunk_text) ==
    LET str == FirstTruthy(metadata, MetadataKeys(cat))
        found == TextMatches(cat, chunk_text)
    IN  IF str = <<>> /\ chunk_text # <<>> /\ found # <<>>
        THEN Join(found, Chars(","))
        ELSE str

\* from_meta_x = bool(x_str), taken before the fallback
FromMeta(cat, metadata) == FirstTruthy(metadata, MetadataKeys(cat)) # <<>>

\* the body of `for match in results.matches` for one accumulator
ProcessMatch(cat, codes, match, terms, table) ==
    LET metadata == MetadataOf(match)
        chunk_text == Get(metadata, "text", <<>>)
    IN  IF Excluded(terms, chunk_text) THEN codes
        ELSE ProcessCodes(cat, codes, CodeStr(cat, metadata, chunk_text),
                          match.score, FromMeta(cat, metadata), table)

(***************************************************************************)
(* The handler                                                             *)
(***************************************************************************)
\* a bound of the model: the longest result list the search returns
MaxMatches == 3

VARIABLES
    terminology,      \* the process-wide table
    index,            \* which index the search provider serves
    pc,               \* "idle", "embed", "search", "loop", "done"
    data,             \* request.json or {}
    query, specialty, region, exclusion_terms, top_k,
    embed_called,     \* openai_client.embeddings.create was called
    search_called,    \* pinecone_index.query was called
    matches,          \* results.matches
    match_pos,        \* position of the loop in matches
    icd10_codes, cpt_codes, hcpcs_codes,
    status, body      \* the response

vars == <<terminology, index, pc, data, query, specialty, region, exclusion_terms,
          top_k, embed_called, search_called, matches, match_pos,
          icd10_codes, cpt_codes, hcpcs_codes, status, body>>

EmptyDict == [x \in {} |-> x]

NoBody == [pending |-> TRUE]

Init ==
    /\ terminology \in {LoadTerminology(f) : f \in TerminologyFiles}
    /\ index \in IndexNames
    /\ pc = "idle"
    /\ data = EmptyDict
    /\ query = <<>> /\ specialty = <<>> /\ region = <<>>
    /\ exclusion_terms = <<>> /\ top_k = 0
    /\ embed_called = FALSE /\ search_called = FALSE
    /\ matches = <<>> /\ match_pos = 0
    /\ icd10_codes = <<>> /\ cpt_codes = <<>> /\ hcpcs_codes = <<>>
    /\ status = 0 /\ body = NoBody

\* `except Exception as e: return jsonify({"error": str(e)}), 500`
Fail(message) ==
    /\ pc' = "done"
    /\ status' = 500
    /\ body' = [error |-> message]

\* a request arrives; lines 86-94
Receive(d) ==
    /\ pc = "idle"
    /\ data' = d
    /\ query' = Strip(Get(d, "query", <<>>))
    /\ specialty' = Get(d, "specialty", Chars("general"))
    /\ region' = Get(d, "region", Chars("US"))
    /\ exclusion_terms' = Get(d, "exclusion_terms", <<>>)
    /\ embed_called' = FALSE /\ search_called' = FALSE
    /\ matches' = <<>> /\ match_pos' = 0
    /\ icd10_codes' = <<>> /\ cpt_codes' = <<>> /\ hcpcs_codes' = <<>>
    /\ LET k == IntOf(Get(d, "top_k", [int |-> DefaultTopK]))
       IN  IF ~k.ok
           THEN top_k' = 0 /\ Fail("ValueError: invalid literal for int()")
           ELSE /\ top_k' = k.value
                /\ IF query' = <<>>
                   THEN /\ pc' = "done"
                        /\ status' = 400
                        /\ body' = [error |-> "Query is required"]
                   ELSE /\ pc' = "embed"
                        /\ status' = 0
                        /\ body' = NoBody
    /\ UNCHANGED <<terminology, index>>

\* openai_client.embeddings.create returns
EmbedOk ==
    /\ pc = "embed"
    /\ embed_called' = TRUE
    /\ pc' = "search"
    /\ UNCHANGED <<terminology, index, data, query, specialty, region, exclusion_terms,
                   top_k, search_called, matches, match_pos,
                   icd10_codes, cpt_codes, hcpcs_codes, status, body>>

\* openai_client.embeddings.create raises
EmbedFail ==
    /\ pc = "embed"
    /\ embed_called' = TRUE
    /\ Fail("embedding provider error")
    /\ UNCHANGED <<terminology, index, data, query, specialty, region, exclusion_terms,
                   top_k, search_called, matches, match_pos,
                   icd10_codes, cpt_codes, hcpcs_codes>>

\* the passages an equality filter on specialty lets through
Searchable(filter) ==
    {p \in Passages(index) : \A f \in DOMAIN filter : Get(MetadataOf(p), f, <<>>) = filter[f]}

\* ordered result lists of at most n passages
ResultLists(S, n) == UNION {[1..k -> S] : k \in 0..n}

\* pinecone_index.query returns; at most top_k matches come back
SearchOk(results) ==
    /\ pc = "search"
    /\ Len(results) <= SearchTopK(top_k)
    /\ search_called' = TRUE
    /\ matches' = results
    /\ match_pos' = 1
    /\ pc' = "loop"
    /\ UNCHANGED <<terminology, index, data, query, specialty, region, exclusion_terms,
                   top_k, embed_called, icd10_codes, cpt_codes, hcpcs_codes, status, body>>

\* pinecone_index.query raises
SearchFail ==
    /\ pc = "search"
    /\ search_called' = TRUE
    /\ Fail("search provider error")
    /\ UNCHANGED <<terminology, index, data, query, specialty, region, exclusion_terms,
                   top_k, embed_called, matches, match_pos,
                   icd10_codes, cpt_codes, hcpcs_codes>>

\* one iteration of `for match in results.matches`; lines 121-213
LoopStep ==
    /\ pc = "loop"
    /\ match_pos <= Len(matches)
    /\ icd10_codes' = ProcessMatch("icd10", icd10_codes, matches[match_pos],
                                   exclusion_terms, terminology)
    /\ cpt_codes' = ProcessMatch("cpt", cpt_codes, matches[match_pos],
                                 exclusion_terms, terminology)
    /\ hcpcs_codes' = ProcessMatch("hcpcs", hcpcs_codes, matches[match_pos],
                                   exclusion_terms, terminology)
    /\ match_pos' = match_pos + 1
    /\ UNCHANGED <<terminology, index, pc, data, query, specialty, region, exclusion_terms,
                   top_k, embed_called, search_called, matches, status, body>>

\* sort, limit and respond; lines 215-236
Respond ==
    /\ pc = "loop"
    /\ match_pos > Len(matches)
    /\ pc' = "done"
    /\ status' = 200
    /\ body' = [icd10 |-> SortAndLimit("icd10", icd10_codes),
                cpt |-> SortAndLimit("cpt", cpt_codes),
                hcpcs |-> SortAndLimit("hcpcs", hcpcs_codes),
                metadata |-> [query |-> query,
                              specialty |-> specialty,
                              region |-> region,
                              total_results |-> Len(matches),
                              filtered_results |-> Len(icd10_codes) + Len(cpt_codes)
                                                     + Len(hcpcs_codes),
                              source |-> "render_rag_v1"]]
    /\ UNCHANGED <<terminology, index, data, query, specialty, region, exclusion_terms,
                   top_k, embed_called, search_called, matches, match_pos,
                   icd10_codes, cpt_codes, hcpcs_codes>>

\* the response is sent; the request's locals are gone and the worker waits
\* for the next request
Return ==
    /\ pc = "done"
    /\ pc' = "idle"
    /\ data' = EmptyDict
    /\ query' = <<>> /\ specialty' = <<>> /\ region' = <<>>
    /\ exclusion_terms' = <<>> /\ top_k' = 0
    /\ embed_called' = FALSE /\ search_called' = FALSE
    /\ matches' = <<>> /\ match_pos' = 0
    /\ icd10_codes' = <<>> /\ cpt_codes' = <<>> /\ hcpcs_codes' = <<>>
    /\ status' = 0 /\ body' = NoBody
    /\ UNCHANGED <<terminology, index>>

Next ==
    \/ \E d \in Requests : Receive(d)
    \/ EmbedOk
    \/ EmbedFail
    \/ \E results \in ResultLists(Searchable(FilterDict(specialty)), MaxMatches) :
           SearchOk(results)
    \/ SearchFail
    \/ LoopStep
    \/ Respond
    \/ Return

Spec == Init /\ [][Next]_vars

(***************************************************************************)
(* Vocabulary of the properties                                            *)
(***************************************************************************)
Categories == {"icd10", "cpt", "hcpcs"}

Codes(cat) ==
    CASE cat = "icd10" -> icd10_codes
      [] cat = "cpt"   -> cpt_codes
      [] cat = "hcpcs" -> hcpcs_codes

\* the category's list of a 200 response
Output(cat) == body[cat]

TextOf(match) == Get(MetadataOf(match), "text", <<>>)

\* a letter paired with itself in the other case
CasePairs ==
    {<<UpperLetters[k], LowerLetters[k]>> : k \in DOMAIN UpperLetters}
        \cup {<<LowerLetters[k], UpperLetters[k]>> : k \in DOMAIN UpperLetters}

SameLetter(a, b) == a = b \/ <<a, b>> \in CasePairs

\* term occurs in text as a substring, letter case ignored
OccursIgnoringCase(term, text) ==
    \E off \in 0..(Len(text) - Len(term)) :
        \A j \in 1..Len(term) : SameLetter(term[j], text[off + j])

\* the passage's text holds one of the request's exclusion terms
Dropped(match) ==
    \E k \in DOMAIN exclusion_terms : OccursIgnoringCase(exclusion_terms[k], TextOf(match))

\* the raw tokens of a code string, in order
TokenSeq(str) == IF str = <<>> THEN <<>> ELSE Split(Replace(str, ";", ","), ",")

\* its non-empty trimmed tokens
Tokens(str) == {Strip(t) : t \in Range(TokenSeq(str))} \ {<<>>}

\* the code string the handler builds for a passage, and the valid codes in it
RawTokens(cat, match) == Tokens(CodeStr(cat, MetadataOf(match), TextOf(match)))

Yielded(cat, match) == {c \in RawTokens(cat, match) : Valid(cat, c)}

\* the same, for every match of the result list
DroppedAll == Tuple([k \in DOMAIN matches |-> Dropped(matches[k])])

YieldedAll(cat) == Tuple([k \in DOMAIN matches |-> Yielded(cat, matches[k])])

Provenance(cat, match) == SourceOf(FromMeta(cat, MetadataOf(match)))

HasValue(metadata, key) == key \in DOMAIN metadata /\ metadata[key] # <<>>

\* the first non-empty value among the category's keys, "" when there is none
MetaValue(cat, metadata) ==
    CASE cat = "icd10" ->
            IF HasValue(metadata, "icd10_codes") THEN metadata["icd10_codes"]
            ELSE IF HasValue(metadata, "icd10") THEN metadata["icd10"]
            ELSE IF HasValue(metadata, "icd_10") THEN metadata["icd_10"]
            ELSE IF HasValue(metadata, "icd-10") THEN metadata["icd-10"]
            ELSE <<>>
      [] cat = "cpt" ->
            IF HasValue(metadata, "cpt_codes") THEN metadata["cpt_codes"]
            ELSE IF HasValue(metadata, "cpt") THEN metadata["cpt"]
            ELSE IF HasValue(metadata, "procedure_codes") THEN metadata["procedure_codes"]
            ELSE <<>>
      [] cat = "hcpcs" ->
            IF HasValue(metadata, "hcpcs_codes") THEN metadata["hcpcs_codes"]
            ELSE IF HasValue(metadata, "hcpcs") THEN metadata["hcpcs"]
            ELSE <<>>

Entries(seq) == Range(seq)

Trimmed(code) ==
    code = <<>> \/ (code[1] \notin Whitespace /\ code[Len(code)] \notin Whitespace)

Position(d, code) == CHOOSE k \in DOMAIN d : d[k].code = code

(***************************************************************************)
(* C1  First-seen-wins: every entry of a response carries the score,       *)
(* source and description of the first passage, in result order, that is   *)
(* not excluded and yields its code as a valid token; a later passage      *)
(* with the same code changes nothing.                                     *)
(***************************************************************************)
FirstSeenWins ==
    status = 200 =>
        LET dropped == DroppedAll
        IN  \A cat \in Categories :
                LET yielded == YieldedAll(cat)
                IN  \A e \in Entries(Output(cat)) :
                        LET S == {k \in DOMAIN matches :
                                     ~dropped[k] /\ e.code \in yielded[k]}
                        IN  /\ S # {}
                            /\ e.score = matches[SetMin(S)].score
                            /\ e.source = Provenance(cat, matches[SetMin(S)])
                            /\ e.description = Describe(cat, e.code, terminology)

\* a metadata code is met again, by pattern, in a later passage of higher score
FirstSeenWinsWitness ==
    /\ status = 200
    /\ \E e \in Entries(Output("icd10")) : \E j, k \in DOMAIN matches :
          /\ j < k
          /\ ~Dropped(matches[j]) /\ ~Dropped(matches[k])
          /\ \A h \in 1..(j - 1) : e.code \notin Yielded("icd10", matches[h])
          /\ e.code \in Yielded("icd10", matches[j]) \cap Yielded("icd10", matches[k])
          /\ matches[k].score > matches[j].score
          /\ Provenance("icd10", matches[j]) = "metadata"
          /\ Provenance("icd10", matches[k]) = "text_extraction"

(***************************************************************************)
(* C2  Exclusion: every entry, of the accumulators and of the response,    *)
(* has its code, score and source from a passage whose text holds no       *)
(* exclusion term (case ignored), so a code that only excluded passages    *)
(* yield is absent; with no exclusion terms every valid code of every      *)
(* passage is accumulated.                                                 *)
(***************************************************************************)
ExclusionInvariant ==
    status = 200 =>
        LET dropped == DroppedAll
        IN  \A cat \in Categories :
                LET yielded == YieldedAll(cat)
                IN  /\ \A e \in Entries(Codes(cat)) \cup Entries(Output(cat)) :
                         \E k \in DOMAIN matches :
                             /\ ~dropped[k]
                             /\ e.code \in yielded[k]
                             /\ e.score = matches[k].score
                             /\ e.source = Provenance(cat, matches[k])
                    /\ exclusion_terms = <<>> =>
                         \A k \in DOMAIN matches : yielded[k] \subseteq DictKeys(Codes(cat))

\* a passage is excluded by a term in another letter case; one of its codes
\* is also yielded by a passage that is kept, another by no other passage
ExclusionWitness ==
    /\ status = 200
    /\ \E j, k \in DOMAIN matches :
          /\ Dropped(matches[j])
          /\ \A t \in DOMAIN exclusion_terms :
                ~Contains(exclusion_terms[t], TextOf(matches[j]))
          /\ ~Dropped(matches[k])
          /\ \E c \in Yielded("icd10", matches[j]) \cap Yielded("icd10", matches[k]) :
                c \in DictKeys(Output("icd10"))
          /\ \E c \in Yielded("hcpcs", matches[j]) : c \notin DictKeys(Output("hcpcs"))

(***************************************************************************)
(* C3  Validation: an ICD-10 code of a response is trimmed, at least 3     *)
(* long and starts with a letter of A-T or V-Z and two digits; a CPT code  *)
(* is exactly 5 digits; an HCPCS code is trimmed and non-empty.            *)
(***************************************************************************)
ShapeLetters == {UpperLetters[k] : k \in (1..20) \cup (22..26)}

ShapeDigits == {"0", "1", "2", "3", "4", "5", "6", "7", "8", "9"}

ValidatedOutput ==
    status = 200 =>
        /\ \A e \in Entries(Output("icd10")) :
              /\ Trimmed(e.code)
              /\ Len(e.code) >= 3
              /\ e.code[1] \in ShapeLetters
              /\ e.code[2] \in ShapeDigits
              /\ e.code[3] \in ShapeDigits
        /\ \A e \in Entries(Output("cpt")) :
              /\ Len(e.code) = 5
              /\ \A k \in 1..5 : e.code[k] \in ShapeDigits
        /\ \A e \in Entries(Output("hcpcs")) :
              Trimmed(e.code) /\ e.code # <<>>

\* kept passages carried ICD-10 and CPT tokens that fail validation, next to
\* codes that pass
ValidatedOutputWitness ==
    /\ status = 200
    /\ Output("icd10") # <<>> /\ Output("cpt") # <<>>
    /\ \E k \in DOMAIN matches :
          /\ ~Dropped(matches[k])
          /\ Chars("9921") \in RawTokens("cpt", matches[k])
          /\ Chars("99213") \in DictKeys(Output("cpt"))
    /\ \E k \in DOMAIN matches :
          /\ ~Dropped(matches[k])
          /\ Chars("X9") \in RawTokens("icd10", matches[k])
          /\ Chars("f41") \in RawTokens("icd10", matches[k])

(***************************************************************************)
(* C4  Dedup: no accumulator and no list of a response holds two entries   *)
(* with the same code.                                                     *)
(***************************************************************************)
DistinctCodes(seq) ==
    \A a, b \in DOMAIN seq : a # b => seq[a].code # seq[b].code

NoDuplicateCodes ==
    \A cat \in Categories :
        /\ DistinctCodes(Codes(cat))
        /\ status = 200 => DistinctCodes(Output(cat))

\* a code is repeated within one metadata value and yielded again by
\* another passage
NoDuplicateCodesWitness ==
    /\ status = 200
    /\ \E j, k \in DOMAIN matches :
          /\ j # k
          /\ ~Dropped(matches[j]) /\ ~Dropped(matches[k])
          /\ LET toks == TokenSeq(MetaValue("icd10", MetadataOf(matches[j])))
             IN  \E a, b \in DOMAIN toks :
                    /\ a # b
                    /\ Strip(toks[a]) = Strip(toks[b])
                    /\ Strip(toks[a]) \in Yielded("icd10", matches[k])
                    /\ Strip(toks[a]) \in DictKeys(Output("icd10"))

(***************************************************************************)
(* C5  Strategy order and provenance, ICD-10 and CPT: a passage with a     *)
(* non-empty metadata value for the category supplies only the tokens of   *)
(* the first such key, a passage without one supplies only the matches of  *)
(* the category's pattern in its text; every entry has a supplier, and     *)
(* its source is 'metadata' exactly when its supplier had a metadata       *)
(* value, otherwise 'text_extraction'.                                     *)
(***************************************************************************)
Supplied(cat, match) ==
    LET value == MetaValue(cat, MetadataOf(match))
    IN  IF value # <<>> THEN {c \in Tokens(value) : Valid(cat, c)}
        ELSE {c \in Range(TextMatches(cat, TextOf(match))) : Valid(cat, c)}

SuppliedAll(cat) == Tuple([k \in DOMAIN matches |-> Supplied(cat, matches[k])])

StrategyAndProvenance ==
    status = 200 =>
        LET dropped == DroppedAll
        IN  \A cat \in {"icd10", "cpt"} :
                LET supplied == SuppliedAll(cat)
                IN  \A e \in Entries(Codes(cat)) \cup Entries(Output(cat)) :
                        LET S == {k \in DOMAIN matches :
                                     ~dropped[k] /\ e.code \in supplied[k]}
                        IN  /\ S # {}
                            /\ e.source \in {"metadata", "text_extraction"}
                            /\ e.source = "metadata"
                                 <=> MetaValue(cat, MetadataOf(matches[SetMin(S)])) # <<>>

\* a kept passage has a CPT metadata value without any valid token and a CPT
\* pattern match in its text, which is not accumulated; the ICD-10 list holds
\* entries of both sources; a passage with two non-empty ICD-10 keys was kept
StrategyAndProvenanceWitness ==
    /\ status = 200
    /\ \E k \in DOMAIN matches :
          /\ ~Dropped(matches[k])
          /\ MetaValue("cpt", MetadataOf(matches[k])) # <<>>
          /\ Supplied("cpt", matches[k]) = {}
          /\ \E c \in Range(FindallCPT(TextOf(matches[k]), 1)) : c \notin DictKeys(cpt_codes)
    /\ \E k \in DOMAIN matches :
          /\ ~Dropped(matches[k])
          /\ HasValue(MetadataOf(matches[k]), "icd10_codes")
          /\ HasValue(MetadataOf(matches[k]), "icd10")
    /\ \E a, b \in Entries(Output("icd10")) :
          a.source = "metadata" /\ b.source = "text_extraction"

(***************************************************************************)
(* C6  Ranking and truncation: each list of a response holds               *)
(* min(N, number of accumulated entries) accumulated entries (N = 20, 15,  *)
(* 10), in descending score with equal scores in insertion order, and     *)
(* every entry left out ranks after every entry kept.                      *)
(***************************************************************************)
ListLimit(cat) ==
    CASE cat = "icd10" -> 20
      [] cat = "cpt"   -> 15
      [] cat = "hcpcs" -> 10

\* a ranks before b: higher score, or equal score and inserted earlier
RanksBefore(d, a, b) ==
    \/ a.score > b.score
    \/ a.score = b.score /\ Position(d, a.code) < Position(d, b.code)

RankedAndTruncated ==
    status = 200 =>
        \A cat \in Categories :
            LET d == Codes(cat)
                out == Output(cat)
            IN  /\ Len(out) = IF Len(d) < ListLimit(cat) THEN Len(d) ELSE ListLimit(cat)
                /\ Entries(out) \subseteq Entries(d)
                /\ \A n \in 1..(Len(out) - 1) : RanksBefore(d, out[n], out[n + 1])
                /\ \A e \in Entries(d) \ Entries(out) :
                      \A n \in DOMAIN out : RanksBefore(d, out[n], e)

\* more codes than the limit in each category, equal scores among the kept
\* entries, and a kept entry that was inserted after one that is left out
RankedAndTruncatedWitness ==
    /\ status = 200
    /\ Len(icd10_codes) > 20 /\ Len(cpt_codes) > 15 /\ Len(hcpcs_codes) > 10
    /\ \E a, b \in Entries(Output("icd10")) : a.code # b.code /\ a.score = b.score
    /\ \E a, b \in Entries(Output("icd10")) : a.score > b.score
    /\ \E a \in Entries(Output("icd10")) :
          \E e \in Entries(icd10_codes) \ Entries(Output("icd10")) :
              Position(icd10_codes, a.code) > Position(icd10_codes, e.code)

(***************************************************************************)
(* C7  A request whose query is missing or empty after trimming is         *)
(* answered 400 'Query is required', whatever its other fields hold, and   *)
(* neither the embedding call nor the search call is made.                 *)
(***************************************************************************)
EmptyQueryIsClientError ==
    (pc = "done" /\ Strip(Get(data, "query", <<>>)) = <<>>) =>
        /\ status = 400
        /\ body = [error |-> "Query is required"]
        /\ ~embed_called
        /\ ~search_called

(***************************************************************************)
(* C8  Description: every entry of a response is described by the first    *)
(* positive term of its code's terminology entry when the code is in the   *)
(* table with a non-empty positive_terms, and otherwise by                 *)
(* "<CATEGORY> code <code>"; no step changes the terminology table.        *)
(***************************************************************************)
GenericDescription(cat, code) ==
    CASE cat = "icd10" -> Chars("ICD-10 code ") \o code
      [] cat = "cpt"   -> Chars("CPT code ") \o code
      [] cat = "hcpcs" -> Chars("HCPCS code ") \o code

HasTerms(code) ==
    /\ code \in DOMAIN terminology
    /\ "positive_terms" \in DOMAIN terminology[code]
    /\ Len(terminology[code].positive_terms) > 0

DescribedOutput ==
    status = 200 =>
        \A cat \in Categories : \A e \in Entries(Output(cat)) :
            e.description = IF HasTerms(e.code)
                            THEN Head(terminology[e.code].positive_terms)
                            ELSE GenericDescription(cat, e.code)

DescriptionEnrichment == [][terminology' = terminology /\ DescribedOutput']_vars

\* one response with a code that has terms, one with empty terms, one whose
\* entry has no positive_terms and one that is not in the table
DescriptionEnrichmentWitness ==
    /\ status = 200
    /\ \E e \in Entries(Output("icd10")) :
          HasTerms(e.code) /\ Len(terminology[e.code].positive_terms) > 1
    /\ \E e \in Entries(Output("cpt")) : HasTerms(e.code)
    /\ \E e \in Entries(Output("icd10")) :
          /\ e.code \in DOMAIN terminology
          /\ "positive_terms" \in DOMAIN terminology[e.code]
          /\ ~HasTerms(e.code)
    /\ \E e \in Entries(Output("hcpcs")) :
          /\ e.code \in DOMAIN terminology
          /\ "positive_terms" \notin DOMAIN terminology[e.code]
    /\ \E e \in Entries(Output("icd10")) : e.code \notin DOMAIN terminology

(***************************************************************************)
(* C9  A passage whose text is absent or empty is never dropped by the     *)
(* exclusion filter, whatever the exclusion terms (an empty-string term    *)
(* included): its valid metadata codes are accumulated.                    *)
(***************************************************************************)
EmptyTextNeverDropped ==
    status = 200 =>
        \A k \in DOMAIN matches :
            TextOf(matches[k]) = <<>> =>
                \A cat \in Categories :
                    {c \in Tokens(MetaValue(cat, MetadataOf(matches[k]))) : Valid(cat, c)}
                        \subseteq DictKeys(Codes(cat))

(***************************************************************************)
(* C10  HCPCS is metadata-only: every HCPCS entry has source 'metadata'    *)
(* and its code is a trimmed token of the first non-empty value among      *)
(* 'hcpcs_codes' and 'hcpcs' of a kept passage, whose score it carries;    *)
(* passages without such a value contribute no HCPCS code.                 *)
(***************************************************************************)
HcpcsValue(metadata) ==
    IF HasValue(metadata, "hcpcs_codes") THEN metadata["hcpcs_codes"]
    ELSE IF HasValue(metadata, "hcpcs") THEN metadata["hcpcs"]
    ELSE <<>>

HcpcsMetadataOnly ==
    status = 200 =>
        LET dropped == DroppedAll
            tokens == Tuple([k \in DOMAIN matches |->
                                Tokens(HcpcsValue(MetadataOf(matches[k])))])
        IN  \A e \in Entries(hcpcs_codes) \cup Entries(Output("hcpcs")) :
                /\ e.source = "metadata"
                /\ \E k \in DOMAIN matches :
                      /\ ~dropped[k]
                      /\ e.code \in tokens[k]
                      /\ e.score = matches[k].score

\* a kept passage has text and no HCPCS value; another supplies its code
\* under the second key; a third has both keys and only the first counts
HcpcsMetadataOnlyWitness ==
    /\ status = 200
    /\ \E k \in DOMAIN matches :
          /\ ~Dropped(matches[k])
          /\ HcpcsValue(MetadataOf(matches[k])) = <<>>
          /\ Contains(Chars("J1100"), TextOf(matches[k]))
    /\ \E k \in DOMAIN matches :
          /\ ~Dropped(matches[k])
          /\ ~HasValue(MetadataOf(matches[k]), "hcpcs_codes")
          /\ \E e \in Entries(Output("hcpcs")) :
                e.code \in Tokens(HcpcsValue(MetadataOf(matches[k])))
    /\ \E k \in DOMAIN matches :
          /\ ~Dropped(matches[k])
          /\ HasValue(MetadataOf(matches[k]), "hcpcs_codes")
          /\ \E c \in Tokens(Get(MetadataOf(matches[k]), "hcpcs", <<>>)) :
                c \notin DictKeys(hcpcs_codes)

=============================================================================
